---- MODULE Spec2Model ----
(***************************************************************************)
(* simpletest: the test runner (simpletest.cpp), the stream capturer       *)
(* (simpletest_iocapturer.cpp) and the signal trampoline                   *)
(* (simpletest_signal.cpp, simpletest_signal.hpp) as one state machine.    *)
(*                                                                         *)
(* File descriptors are modelled by their numbers: the descriptor table    *)
(* fdtab maps descriptor n (at index n + 1) to the open file it refers to. *)
(* The code never closes a descriptor, so a new descriptor always gets the *)
(* number Len(fdtab).                                                      *)
(*                                                                         *)
(* Spec is a run of __executetests over a registry of test functions.      *)
(* SpecIO is one capture session in which a test body writes, reads and    *)
(* calls the members of IOCapturer.  SpecLastLine applies                  *)
(* IOCapturer::getLastLine to a text.                                      *)
(*                                                                         *)
(* Some lines of simpletest.cpp do not compile as written (162-169, 201,   *)
(* 266); they are modelled by their evident intent: the name and the       *)
(* reason of a failure line are those of the UnitTest the element of       *)
(* __failvec refers to, and __registertest appends UnitTest(test, name).   *)
(***************************************************************************)
EXTENDS Integers, Sequences, FiniteSets, TLC

\* Largest number of registered test cases explored.
MaxTests == 3
\* The descriptor limit of the process ranges over 3 .. 3 + MaxFreeFds
\* (and over Ample, a limit no run reaches).
MaxFreeFds == 6

\* Signal numbers (signal.h), the set the trampoline traps.
SIGINT == 2
SIGABRT == 6
SIGSEGV == 11
SIGTERM == 15
signals == {SIGINT, SIGABRT, SIGSEGV, SIGTERM}

STDIN_FILENO == 0
STDOUT_FILENO == 1
STDERR_FILENO == 2

\* A descriptor limit that is out of reach of every run explored: one
\* capture session opens 7 descriptors.
Ample == 3 + 14 * (MaxTests + 1)

\* The open files the three standard descriptors refer to at process start.
Orig(n) == [obj |-> "orig", id |-> n]
\* The two ends of the pipe whose read end got descriptor number n.
PipeR(n) == [obj |-> "pipe_r", id |-> n]
PipeW(n) == [obj |-> "pipe_w", id |-> n]

(***************************************************************************)
(* The test functions.  UNIT_TEST(str) registers the function str under    *)
(* the name #str, so an entry point is identified by its name.  The body   *)
(* of each function is the sequence of harness operations it performs.     *)
(***************************************************************************)
Funcs == {"ok", "armed", "assert_x", "expect_hello", "twocapt", "twosig", "thrower"}

Body(f) ==
    CASE f = "ok"           -> << >>
      [] f = "armed"        -> <<"HANDLE_SIGNALS">>
      [] f = "assert_x"     -> <<"ASSERT">>
      [] f = "expect_hello" -> <<"EXPECT">>
      [] f = "twocapt"      -> <<"IOCapturer">>
      [] f = "twosig"       -> <<"HANDLE_SIGNALS", "HANDLE_SIGNALS", "SignalHandler">>
      [] f = "thrower"      -> <<"throw">>

\* No exception in flight.
NoExc == [type |-> "none", what |-> ""]
\* std::nullopt of UnitTest::failReason.
nullopt == [has |-> FALSE, value |-> ""]
Some(s) == [has |-> TRUE, value |-> s]

VARIABLES
    pc,          \* position of the process
    testvec,     \* __gettestvec(): the registered UnitTests
    i,           \* runTests: loop index
    maxLen,      \* runTests: length of the longest name
    failvec,     \* runTests/__executetests: __failvec, a sequence of pairs
    scope,       \* the live objects of the current try block, in construction order
    ip,          \* position in the body of the running test function
    exc,         \* the exception being propagated
    out,         \* everything written to std::cout / std::cerr, in order
    exitStatus,  \* exit status of the process once it has ended
    IOCapturer_instanceCount,  \* IOCapturer::instanceCount
    fdtab,       \* descriptor table of the process
    fdLimit,     \* RLIMIT_NOFILE
    instanceCount,  \* simpletest_signal.cpp: instanceCount
    s_jmpbuf,    \* the setjmp that filled s_jmpbuf last: its frame and position
    s_signo,
    s_exit,
    sigaction,   \* disposition of each trapped signal
    blocked,     \* signal mask of the process
    hist,        \* per case: what happened to it (history)
    oob,         \* an element outside a vector or an array was read (history)
    pipebuf,     \* the bytes buffered in each pipe of the capture session
    screen,      \* the bytes written to the original stdout and stderr
    last,        \* the last call of an IOCapturer member or of read/write
    fed,         \* the line sent into the empty stdin pipe and not yet read (history)
    sinceDrain,  \* the bytes the body wrote to stdout/stderr since getStdout (history)
    ops          \* number of calls made in the capture session

vars == <<pc, testvec, i, maxLen, failvec, scope, ip, exc, out, exitStatus,
          IOCapturer_instanceCount, fdtab, fdLimit, instanceCount, s_jmpbuf,
          s_signo, s_exit, sigaction, blocked, hist, oob,
          pipebuf, screen, last, fed, sinceDrain, ops>>

runnerVars == <<testvec, i, maxLen, failvec, out, exitStatus>>
captVars == <<IOCapturer_instanceCount, fdtab>>
sigVars == <<instanceCount, s_jmpbuf, s_signo, s_exit, sigaction, blocked>>
envVars == <<fdLimit>>
ioVars == <<pipebuf, screen, last, fed, sinceDrain, ops>>

\* The record of a call: the member called, its argument, what it returned,
\* the exception it threw, and (history) what the call found: the bytes
\* queued in the stdin pipe for sendToStdin, the bytes written since the
\* previous getStdout for getStdout.
Call(op, arg, ret, e, pre) == [op |-> op, arg |-> arg, ret |-> ret, exc |-> e, pre |-> pre]

\* No line is waiting to be read.
NoLine == [has |-> FALSE, line |-> << >>]

\* The capture state before any session.
NoSession ==
    /\ pipebuf = << >>
    /\ screen = << >>
    /\ fed = NoLine
    /\ sinceDrain = << >>
    /\ ops = 0

\* The history record of a case that has not started.
\* invoked: calls of the entry point; begun, ended: capture sessions
\* constructed and destroyed; nested: IOCapturer constructions by the body;
\* sig, how, armed: the signal the body raised, what became of it, and whether
\* the body had armed a recovery point; lastArm: the position of the last
\* HANDLE_SIGNALS() the body executed; landed: the position of the setjmp in
\* the body that the signal returned to (0: none); result, what: how the try
\* block ended; reason: the reason handed to setFailureReason; name: the name
\* the case was registered under.
NoHist == [invoked |-> 0, begun |-> 0, ended |-> 0, nested |-> 0,
           sig |-> 0, how |-> "", armed |-> FALSE, lastArm |-> 0, landed |-> 0,
           result |-> "", what |-> "", reason |-> "", name |-> ""]

Init ==
    /\ pc = "register"
    /\ testvec = << >>
    /\ i = 0
    /\ maxLen = 0
    /\ failvec = << >>
    /\ scope = << >>
    /\ ip = 0
    /\ exc = NoExc
    /\ out = << >>
    /\ exitStatus = 0
    /\ IOCapturer_instanceCount = 0
    /\ fdtab = <<Orig(STDIN_FILENO), Orig(STDOUT_FILENO), Orig(STDERR_FILENO)>>
    /\ fdLimit \in (3 .. 3 + MaxFreeFds) \cup {Ample}
    /\ instanceCount = 0
    /\ s_jmpbuf = [frame |-> "unset", ip |-> 0]
    /\ s_signo = 0
    /\ s_exit = FALSE
    /\ sigaction = [s \in signals |-> "SIG_DFL"]
    /\ blocked = {}
    /\ hist = << >>
    /\ oob = FALSE
    /\ NoSession
    /\ last = Call("none", << >>, << >>, NoExc, << >>)

(***************************************************************************)
(* Registration                                                            *)
(***************************************************************************)
\* UnitTest(func, name): the failure reason starts empty.
UnitTest(func, name) == [func |-> func, name |-> name, failReason |-> nullopt]

\* UnitTest::setFailureReason
setFailureReason(u, reason) == [u EXCEPT !.failReason = Some(reason)]

\* The value of a pointer that was never initialised: whatever bytes its
\* storage held, which nothing in the program reads afterwards.
Indeterminate == "indeterminate"

\* UnitTest::UnitTest(UnitTest& other): func and name of the new object are
\* not initialised, its failReason is std::nullopt, and swap(*this, other)
\* exchanges the three members: the new object gets those of other, and
\* other is left with those the new object had.
UnitTest_copy(other) ==
    [self |-> other,
     other |-> [func |-> Indeterminate, name |-> Indeterminate, failReason |-> nullopt]]

\* std::make_pair(i, u) converted to std::pair<size_t, const UnitTest&>:
\* second refers to the UnitTest of the temporary pair, which is destroyed at
\* the end of the statement; the field holds what that object held.
make_pair(first, second) == [first |-> first, second |-> second]

\* __registertest, called by the __registerdummy object of UNIT_TEST(f).
registertest(f) ==
    /\ pc = "register"
    /\ Len(testvec) < MaxTests
    /\ testvec' = Append(testvec, UnitTest(f, f))
    /\ hist' = Append(hist, [NoHist EXCEPT !.name = f])
    /\ UNCHANGED <<pc, i, maxLen, failvec, scope, ip, exc, out, exitStatus, oob>>
    /\ UNCHANGED <<captVars, sigVars, envVars, ioVars>>

(***************************************************************************)
(* Console output                                                          *)
(***************************************************************************)
\* nDigits: the number of decimal digits of x (0 for x = 0).
RECURSIVE nDigitsLoop(_, _, _)
nDigitsLoop(x, val, ctr) ==
    IF val <= x THEN nDigitsLoop(x, val * 10, ctr + 1) ELSE ctr

nDigits(x) == nDigitsLoop(x, 1, 0)

\* The capture sessions that are live: constructed and not yet destroyed.
LiveSessions == {k \in 1 .. Len(scope) : scope[k].kind = "IOCapturer"}

\* One write to a standard stream: the descriptor written to, the open file
\* that descriptor refers to at that moment, whether an IOCapturer is live at
\* that moment, and what is written.
Piece(fd, kind, num, width, name, dots, text) ==
    [fd |-> fd, dest |-> fdtab[fd + 1], live |-> (LiveSessions # {}),
     kind |-> kind, num |-> num,
     width |-> width, name |-> name, dots |-> dots, text |-> text]

\* std::cout << text
Cout(kind, text) == Piece(STDOUT_FILENO, kind, 0, 0, "", 0, text)
\* std::cerr << text
Cerr(kind, text) == Piece(STDERR_FILENO, kind, 0, 0, "", 0, text)

\* "Test <num> (<name>)" followed by dots, num left-aligned in width columns.
TestLine(kind, num, width, name, dots, text) ==
    Piece(STDOUT_FILENO, kind, num, width, name, dots, text)

\* The length of the longest name of names[from ..], starting from cur:
\* the std::for_each loops of runTests and printResults.
RECURSIVE LongestFrom(_, _, _)
LongestFrom(names, from, cur) ==
    IF from > Len(names) THEN cur
    ELSE LongestFrom(names, from + 1,
                     IF Len(names[from]) > cur THEN Len(names[from]) ELSE cur)

\* The number of padding dots after a name: the bound of the dot loops.
Dots(longest, name) == longest - Len(name) + 3

(***************************************************************************)
(* runTests / __executetests                                               *)
(***************************************************************************)
\* __executetests calls runTests: the empty registry returns at once,
\* otherwise maxLen is computed and the loop starts.
executetests ==
    /\ pc = "register"
    /\ IF Len(testvec) = 0
       THEN /\ pc' = "results"
            /\ UNCHANGED maxLen
       ELSE /\ pc' = "loop"
            /\ maxLen' = LongestFrom([k \in 1 .. Len(testvec) |-> testvec[k].name],
                                     2, Len(testvec[1].name))
    /\ UNCHANGED <<testvec, i, failvec, scope, ip, exc, out, exitStatus, hist, oob>>
    /\ UNCHANGED <<captVars, sigVars, envVars, ioVars>>

\* The head of the loop body: the progress line of case i.
Progress ==
    /\ pc = "loop"
    /\ i < Len(testvec)
    /\ out' = Append(out, TestLine("progress", i + 1, nDigits(Len(testvec)),
                                   testvec[i + 1].name,
                                   Dots(maxLen, testvec[i + 1].name), ""))
    /\ pc' = "iocapt"
    /\ UNCHANGED <<testvec, i, maxLen, failvec, scope, ip, exc, exitStatus, hist, oob>>
    /\ UNCHANGED <<captVars, sigVars, envVars, ioVars>>

\* The loop condition fails: runTests returns __failvec.
LoopExit ==
    /\ pc = "loop"
    /\ i >= Len(testvec)
    /\ pc' = "results"
    /\ UNCHANGED <<testvec, i, maxLen, failvec, scope, ip, exc, out, exitStatus, hist, oob>>
    /\ UNCHANGED <<captVars, sigVars, envVars, ioVars>>

(***************************************************************************)
(* IOCapturer                                                              *)
(***************************************************************************)
\* Whether n more descriptors fit under the descriptor limit.
CanOpen(tab, n) == Len(tab) + n <= fdLimit

\* dup(fd): the lowest free descriptor, referring to the open file of fd;
\* -1 when the table is full.
dup(tab, fd) ==
    IF CanOpen(tab, 1)
    THEN [fd |-> Len(tab), tab |-> Append(tab, tab[fd + 1])]
    ELSE [fd |-> -1, tab |-> tab]

\* dup2(oldfd, newfd): newfd refers to the open file of oldfd; fails and
\* changes nothing when oldfd is not an open descriptor.
dup2(tab, oldfd, newfd) ==
    IF oldfd >= 0 /\ oldfd < Len(tab)
    THEN [tab EXCEPT ![newfd + 1] = tab[oldfd + 1]]
    ELSE tab

\* IOCapturerImpl as the member initialisers leave it.
IOCapturerImpl ==
    [stdoutOld |-> 0, stderrOld |-> 0, stdinOld |-> 0,
     stdoutPipe |-> <<0, 0>>, stdinPipe |-> <<0, 0>>]

logic_error(what) == [type |-> "std::logic_error", what |-> what]
runtime_error(what) == [type |-> "std::runtime_error", what |-> what]

\* A constructor that never finds the capturer occupied.
CapturerOccupied_never == FALSE

\* The occupancy test of the constructor.
CapturerOccupied == IOCapturer_instanceCount # 0

\* A constructor that counts the instance before it tests the occupancy.
ThrowOccupied_counted(count, tab) ==
    [exc |-> logic_error("Only one instance of IOCapturer can be active at a time"),
     count |-> count + 1, tab |-> tab, impl |-> IOCapturerImpl]

\* What the constructor leaves when the occupancy test fails: it throws
\* before it touches the counter or a descriptor.
ThrowOccupied(count, tab) ==
    [exc |-> logic_error("Only one instance of IOCapturer can be active at a time"),
     count |-> count, tab |-> tab, impl |-> IOCapturerImpl]

\* IOCapturer::IOCapturer, as a function of the state: the exception it
\* throws (NoExc when it returns), and the counter, the descriptor table and
\* the impl it leaves.
IOCapturer_IOCapturer ==
    IF CapturerOccupied
    THEN ThrowOccupied(IOCapturer_instanceCount, fdtab)
    ELSE
    LET count == IOCapturer_instanceCount + 1
        n == Len(fdtab)
    IN  IF ~CanOpen(fdtab, 2)
        THEN [exc |-> runtime_error("Failed to create stdout pipe (Too many open files)"),
              count |-> count, tab |-> fdtab, impl |-> IOCapturerImpl]
        ELSE
        LET t1 == fdtab \o <<PipeR(n), PipeW(n)>>
        IN  IF ~CanOpen(t1, 2)
            THEN [exc |-> runtime_error("Failed to create stdin pipe (Too many open files)"),
                  count |-> count, tab |-> t1,
                  impl |-> [IOCapturerImpl EXCEPT !.stdoutPipe = <<n, n + 1>>]]
            ELSE
            LET t2 == t1 \o <<PipeR(n + 2), PipeW(n + 2)>>
                d1 == dup(t2, STDOUT_FILENO)
                d2 == dup(d1.tab, STDERR_FILENO)
                d3 == dup(d2.tab, STDIN_FILENO)
                t3 == dup2(d3.tab, n + 1, STDOUT_FILENO)
                t4 == dup2(t3, n + 1, STDERR_FILENO)
                t5 == dup2(t4, n + 2, STDIN_FILENO)
            IN  [exc |-> NoExc, count |-> count, tab |-> t5,
                 impl |-> [stdoutOld |-> d1.fd, stderrOld |-> d2.fd, stdinOld |-> d3.fd,
                           stdoutPipe |-> <<n, n + 1>>, stdinPipe |-> <<n + 2, n + 3>>]]

\* IOCapturer::~IOCapturer: the descriptor table it leaves.
IOCapturer_restore(tab, impl) ==
    dup2(dup2(dup2(tab, impl.stdoutOld, STDOUT_FILENO),
              impl.stderrOld, STDERR_FILENO),
         impl.stdinOld, STDIN_FILENO)

(***************************************************************************)
(* SignalHandler                                                           *)
(***************************************************************************)
\* A handler whose switch marks no signal.
ExitSignals_none == {}

\* A handler whose switch marks every trapped signal.
ExitSignals_all == signals

\* The signals whose delivery asks for the process to exit (handler's switch).
ExitSignals == {SIGABRT, SIGINT, SIGTERM}

\* The occupancy test of the constructor.
HandlerOccupied == instanceCount > 0

\* SignalHandler::signalToString
signalToString(signo) ==
    CASE signo = SIGINT  -> "Interrupt signal"
      [] signo = SIGABRT -> "Abort signal"
      [] signo = SIGSEGV -> "Segmentation fault"
      [] signo = SIGTERM -> "Termination signal"
      [] OTHER           -> "Unknown signal"

\* SignalException(signo): what() names the signal.
SignalException(signo) ==
    [type |-> "SignalException", what |-> signalToString(signo)]

\* An object of the try block or of the test body.
Obj(kind, impl) == [kind |-> kind, impl |-> impl]

\* A constructor without its setjmp: s_jmpbuf keeps what it held.
setjmp_ctor_omitted == s_jmpbuf

\* The setjmp of the constructor: s_jmpbuf targets the frame of the
\* constructor.
setjmp_ctor == [frame |-> "ctor", ip |-> 0]

\* The setjmp of ActivateSignalHandler at position at of the running body.
setjmp_body(at) == [frame |-> "body", ip |-> at]

\* SignalHandler::SignalHandler, as a function of the state.  The occupancy
\* failure throws a pointer to a std::logic_error (throw new ...).
SignalHandler_SignalHandler ==
    IF HandlerOccupied
    THEN [exc |-> [type |-> "std::logic_error*",
                   what |-> "Cannot have more than one instance of signal handler at a time in one thread."],
          count |-> instanceCount, sigaction |-> sigaction, jmpbuf |-> s_jmpbuf]
    ELSE [exc |-> NoExc, count |-> instanceCount + 1,
          sigaction |-> [s \in signals |-> "handler"], jmpbuf |-> setjmp_ctor]

(***************************************************************************)
(* The try block of runTests                                               *)
(***************************************************************************)
Case == i + 1
func == testvec[Case].func

\* Where control goes once the exception e leaves the innermost frame: the
\* live objects are destroyed first, then the handler (or "Passed") runs.
Leave(e) ==
    /\ exc' = e
    /\ pc' = IF scope # << >> THEN "unwind" ELSE IF e = NoExc THEN "passed" ELSE "catch"

\* IOCapturer __iocapt;
RunnerIOCapturer ==
    /\ pc = "iocapt"
    /\ LET r == IOCapturer_IOCapturer
       IN  /\ IOCapturer_instanceCount' = r.count
           /\ fdtab' = r.tab
           /\ IF r.exc = NoExc
              THEN /\ scope' = Append(scope, Obj("IOCapturer", r.impl))
                   /\ pc' = "sighand"
                   /\ hist' = [hist EXCEPT ![Case].begun = @ + 1]
                   /\ UNCHANGED exc
              ELSE /\ Leave(r.exc)
                   /\ UNCHANGED <<scope, hist>>
    /\ UNCHANGED <<testvec, i, maxLen, failvec, ip, out, exitStatus, oob>>
    /\ UNCHANGED <<sigVars, envVars, ioVars>>

\* SignalHandler __sighand; and, once it is constructed, the call of the
\* entry point.
RunnerSignalHandler ==
    /\ pc = "sighand"
    /\ LET r == SignalHandler_SignalHandler
       IN  /\ instanceCount' = r.count
           /\ sigaction' = r.sigaction
           /\ s_jmpbuf' = r.jmpbuf
           /\ IF r.exc = NoExc
              THEN /\ scope' = Append(scope, Obj("SignalHandler", IOCapturerImpl))
                   /\ pc' = "body"
                   /\ ip' = 1
                   /\ hist' = [hist EXCEPT ![Case].invoked = @ + 1]
                   /\ UNCHANGED exc
              ELSE /\ Leave(r.exc)
                   /\ UNCHANGED <<scope, ip, hist>>
    /\ UNCHANGED <<testvec, i, maxLen, failvec, out, exitStatus, oob>>
    /\ UNCHANGED <<s_signo, s_exit, blocked>>
    /\ UNCHANGED <<captVars, envVars, ioVars>>

(***************************************************************************)
(* The operations of a test body                                           *)
(***************************************************************************)
AtOp(op) ==
    /\ pc = "body"
    /\ ip <= Len(Body(func))
    /\ Body(func)[ip] = op

\* HANDLE_SIGNALS(): ActivateSignalHandler's setjmp returning 0.
HANDLE_SIGNALS ==
    /\ AtOp("HANDLE_SIGNALS")
    /\ s_jmpbuf' = setjmp_body(ip)
    /\ hist' = [hist EXCEPT ![Case].lastArm = ip]
    /\ ip' = ip + 1
    /\ UNCHANGED <<pc, scope, exc, oob>>
    /\ UNCHANGED <<instanceCount, s_signo, s_exit, sigaction, blocked>>
    /\ UNCHANGED <<runnerVars, captVars, envVars, ioVars>>

\* ASSERT(x == 4) with x # 4.
ASSERT ==
    /\ AtOp("ASSERT")
    /\ Leave([type |-> "FailedAssertion", what |-> "x == 4"])
    /\ UNCHANGED <<scope, ip, hist, oob>>
    /\ UNCHANGED <<runnerVars, captVars, sigVars, envVars, ioVars>>

\* FailedExpectation(expected, actual)
FailedExpectation(expected, actual) ==
    [type |-> "FailedExpectation",
     what |-> "\"" \o expected \o "\" == \"" \o actual \o "\""]

\* EXPECT("hello") when nothing was written to the captured streams.
EXPECT ==
    /\ AtOp("EXPECT")
    /\ Leave(FailedExpectation("hello", ""))
    /\ UNCHANGED <<scope, ip, hist, oob>>
    /\ UNCHANGED <<runnerVars, captVars, sigVars, envVars, ioVars>>

\* throw 42;
Throw ==
    /\ AtOp("throw")
    /\ Leave([type |-> "int", what |-> ""])
    /\ UNCHANGED <<scope, ip, hist, oob>>
    /\ UNCHANGED <<runnerVars, captVars, sigVars, envVars, ioVars>>

\* A test body constructs an IOCapturer of its own.
BodyIOCapturer ==
    /\ AtOp("IOCapturer")
    /\ LET r == IOCapturer_IOCapturer
       IN  /\ IOCapturer_instanceCount' = r.count
           /\ fdtab' = r.tab
           /\ hist' = [hist EXCEPT ![Case].nested = @ + 1]
           /\ IF r.exc = NoExc
              THEN /\ scope' = Append(scope, Obj("IOCapturer", r.impl))
                   /\ ip' = ip + 1
                   /\ UNCHANGED <<pc, exc>>
              ELSE /\ Leave(r.exc)
                   /\ UNCHANGED <<scope, ip>>
    /\ UNCHANGED <<runnerVars, sigVars, envVars, ioVars, oob>>

\* A test body constructs a SignalHandler of its own.
BodySignalHandler ==
    /\ AtOp("SignalHandler")
    /\ LET r == SignalHandler_SignalHandler
       IN  /\ instanceCount' = r.count
           /\ sigaction' = r.sigaction
           /\ s_jmpbuf' = r.jmpbuf
           /\ IF r.exc = NoExc
              THEN /\ scope' = Append(scope, Obj("SignalHandler", IOCapturerImpl))
                   /\ ip' = ip + 1
                   /\ UNCHANGED <<pc, exc>>
              ELSE /\ Leave(r.exc)
                   /\ UNCHANGED <<scope, ip>>
    /\ UNCHANGED <<s_signo, s_exit, blocked, hist, oob>>
    /\ UNCHANGED <<runnerVars, captVars, envVars, ioVars>>

\* The test function returns.
BodyReturn ==
    /\ pc = "body"
    /\ ip > Len(Body(func))
    /\ Leave(NoExc)
    /\ UNCHANGED <<scope, ip, hist, oob>>
    /\ UNCHANGED <<runnerVars, captVars, sigVars, envVars, ioVars>>

(***************************************************************************)
(* Signals raised by a test body.  A signal other than a fault that is     *)
(* raised while it is blocked stays pending and is never delivered (the    *)
(* code never unblocks a signal): raising it changes nothing.              *)
(***************************************************************************)
\* The process ends: by exit(status), or killed by a signal.
Ends(how, status) ==
    /\ pc' = how
    /\ exitStatus' = status

\* The status of a process killed by signal sig, as a shell reports it.
KilledBy(sig) == 128 + sig

\* The signal masks longjmp can leave when it jumps out of the handler: the
\* handler runs with every signal blocked (sigfillset), and it is unspecified
\* whether setjmp saves the mask and longjmp puts it back (glibc does not).
MasksAfterJump == {blocked, signals}

\* The body faults (an invalid memory access) while SIGSEGV is blocked: the
\* kernel ends the process.
RaiseBlockedFault ==
    /\ pc = "body"
    /\ SIGSEGV \in blocked
    /\ Ends("killed", KilledBy(SIGSEGV))
    /\ hist' = [hist EXCEPT ![Case].sig = SIGSEGV, ![Case].how = "forced",
                             ![Case].armed = (s_jmpbuf.frame = "body")]
    /\ UNCHANGED <<testvec, i, maxLen, failvec, scope, ip, exc, out, oob>>
    /\ UNCHANGED <<captVars, sigVars, envVars, ioVars>>

\* handler(signo), up to its longjmp.
handler(signo) ==
    /\ s_exit' = (s_exit \/ signo \in ExitSignals)
    /\ s_signo' = signo

\* sig is delivered and longjmp lands in ActivateSignalHandler, in the frame
\* of the running test body: exit(1) after the diagnostic, or the throw.
RaiseArmed(sig) ==
    /\ pc = "body"
    /\ sig \notin blocked
    /\ sigaction[sig] = "handler"
    /\ s_jmpbuf.frame = "body"
    /\ handler(sig)
    /\ blocked' \in MasksAfterJump
    /\ hist' = [hist EXCEPT ![Case].sig = sig, ![Case].how = "armed",
                             ![Case].armed = TRUE, ![Case].landed = s_jmpbuf.ip]
    /\ IF s_exit'
       THEN /\ out' = Append(out, Cerr("terminating", signalToString(sig)))
            /\ Ends("exited", 1)
            /\ UNCHANGED exc
       ELSE /\ Leave(SignalException(sig))
            /\ UNCHANGED <<out, exitStatus>>
    /\ UNCHANGED <<testvec, i, maxLen, failvec, scope, ip, oob>>
    /\ UNCHANGED <<instanceCount, s_jmpbuf, sigaction>>
    /\ UNCHANGED <<captVars, envVars, ioVars>>

\* sig is delivered and longjmp targets the setjmp of the SignalHandler
\* constructor, a function that has returned: undefined behaviour.  Either
\* the constructor's branch runs (the diagnostic, then exit(1)) or the
\* process crashes; it ends with the mask of the handler.
RaiseUnarmed(sig) ==
    /\ pc = "body"
    /\ sig \notin blocked
    /\ sigaction[sig] = "handler"
    /\ s_jmpbuf.frame = "ctor"
    /\ handler(sig)
    /\ blocked' = signals
    /\ hist' = [hist EXCEPT ![Case].sig = sig, ![Case].how = "unarmed"]
    /\ \/ /\ out' = Append(out, Cerr("unarmed", "An ActivateSignalHandler() location was not specified."))
          /\ Ends("exited", 1)
       \/ /\ Ends("killed", KilledBy(SIGSEGV))
          /\ UNCHANGED out
    /\ UNCHANGED <<testvec, i, maxLen, failvec, scope, ip, exc, oob>>
    /\ UNCHANGED <<instanceCount, s_jmpbuf, sigaction>>
    /\ UNCHANGED <<captVars, envVars, ioVars>>

(***************************************************************************)
(* Leaving the try block                                                   *)
(***************************************************************************)
Top == scope[Len(scope)]
Pop ==
    /\ scope' = SubSeq(scope, 1, Len(scope) - 1)
    /\ pc' = IF Len(scope) > 1 THEN "unwind" ELSE IF exc = NoExc THEN "passed" ELSE "catch"

\* IOCapturer::~IOCapturer of the innermost live object.
IOCapturer_dtor ==
    /\ pc = "unwind"
    /\ scope # << >>
    /\ Top.kind = "IOCapturer"
    /\ IOCapturer_instanceCount' = IOCapturer_instanceCount - 1
    /\ fdtab' = IOCapturer_restore(fdtab, Top.impl)
    /\ hist' = [hist EXCEPT ![Case].ended = @ + 1]
    /\ Pop
    /\ UNCHANGED <<testvec, i, maxLen, failvec, ip, exc, out, exitStatus, oob>>
    /\ UNCHANGED <<sigVars, envVars, ioVars>>

\* A destructor that leaves the dispositions as they are.
SignalHandler_restore_kept == sigaction

\* The dispositions the destructor installs: SIG_DFL for each trapped signal.
SignalHandler_restore == [s \in signals |-> "SIG_DFL"]

\* SignalHandler::~SignalHandler of the innermost live object.
SignalHandler_dtor ==
    /\ pc = "unwind"
    /\ scope # << >>
    /\ Top.kind = "SignalHandler"
    /\ instanceCount' = instanceCount - 1
    /\ sigaction' = SignalHandler_restore
    /\ Pop
    /\ UNCHANGED <<testvec, i, maxLen, failvec, ip, exc, out, exitStatus, hist, oob>>
    /\ UNCHANGED <<s_jmpbuf, s_signo, s_exit, blocked>>
    /\ UNCHANGED <<captVars, envVars, ioVars>>

\* The try block ended without an exception.
Passed ==
    /\ pc = "passed"
    /\ out' = out \o <<Cout("outcome", "Passed"), Cout("endl", "")>>
    /\ i' = i + 1
    /\ ip' = 0
    /\ pc' = "loop"
    /\ hist' = [hist EXCEPT ![Case].result = "passed"]
    /\ UNCHANGED <<testvec, maxLen, failvec, scope, exc, exitStatus, oob>>
    /\ UNCHANGED <<captVars, sigVars, envVars, ioVars>>

\* The reason the handler that catches e records.
Reason(e) ==
    CASE e.type \in {"FailedAssertion", "FailedExpectation"} -> e.what
      [] e.type = "SignalException" -> "Signal thrown: " \o e.what
      [] e.type \in {"std::logic_error", "std::runtime_error"} -> "Internal error: " \o e.what
      [] OTHER -> "Unknown internal error"

\* What the handler that catches e prints.
Printed(e) ==
    IF e.type \in {"FailedAssertion", "FailedExpectation"}
    THEN "Failed: " \o e.what
    ELSE Reason(e)

\* The catch clauses of runTests: each records the reason in __testvec[i] and
\* then pushes std::make_pair(i, __testvec[i]), which copies __testvec[i].
Catch ==
    /\ pc = "catch"
    /\ LET copy == UnitTest_copy(setFailureReason(testvec[Case], Reason(exc)))
       IN  /\ testvec' = [testvec EXCEPT ![Case] = copy.other]
           /\ failvec' = Append(failvec, make_pair(i, copy.self))
    /\ out' = out \o <<Cout("outcome", Printed(exc)), Cout("endl", "")>>
    /\ exc' = NoExc
    /\ i' = i + 1
    /\ ip' = 0
    /\ pc' = "loop"
    /\ hist' = [hist EXCEPT ![Case].result = exc.type, ![Case].what = exc.what,
                             ![Case].reason = Reason(exc)]
    /\ UNCHANGED <<maxLen, scope, exitStatus, oob>>
    /\ UNCHANGED <<captVars, sigVars, envVars, ioVars>>

(***************************************************************************)
(* printResults and the return of __executetests                           *)
(***************************************************************************)
Max(a, b) == IF a > b THEN a ELSE b

\* The ordinal printed for element k of __failvec.
FailOrdinal(k) == failvec[k].first + 1

\* What a read through a dangling reference finds once the memory of the
\* destroyed temporary has been used for something else.
Overwritten == [func |-> "stale", name |-> "", failReason |-> Some("")]

\* What a read through the reference of element k of __failvec finds: the
\* object the destroyed temporary held while its memory is intact.
Dangling(k, memory) == IF memory = "intact" THEN failvec[k].second ELSE Overwritten

\* The memory of the destroyed temporaries during the first loop of
\* printResults (maxLen) and during the second (the list): memory that has
\* been overwritten stays overwritten.
Memories == {<<"intact", "intact">>, <<"intact", "overwritten">>,
             <<"overwritten", "overwritten">>}

\* The name and the reason read through element k of __failvec.
FailName(k, memory) == Dangling(k, memory).name
FailReason(k, memory) == Dangling(k, memory).failReason

\* The head of the summary: the blank line, "Results:", the two counts.
Counts ==
    LET failed == Len(failvec)
        passed == Len(testvec) - failed
        totalLen == nDigits(Max(passed, failed))
    IN  <<Cout("endl", ""), Cout("results", "Results:"),
          Piece(STDOUT_FILENO, "count", passed, totalLen, "", 0, " Passed"),
          Piece(STDOUT_FILENO, "count", failed, totalLen, "", 0, " Failed"),
          Cout("endl", "")>>

\* The failure list, m being the memory during the two loops.
FailedTests(m) ==
    LET names == [k \in 1 .. Len(failvec) |-> FailName(k, m[1])]
        longest == LongestFrom(names, 2, Len(names[1]))
    IN  [k \in 1 .. Len(failvec) |->
            TestLine("failure", FailOrdinal(k), nDigits(Len(testvec)), FailName(k, m[2]),
                     Dots(longest, FailName(k, m[2])), FailReason(k, m[2]).value)]

\* printResults with a failure to report.  Every name and reason is read
\* through a reference to a temporary that runTests destroyed, which is
\* undefined behaviour: the summary is printed with what the reads find, or
\* the process is killed, at the first read or in the list.
printResults ==
    /\ pc = "results"
    /\ failvec # << >>
    /\ \/ /\ \E m \in Memories :
                 out' = out \o Counts \o <<Cout("failed_tests", "Failed tests:")>>
                            \o FailedTests(m)
          /\ pc' = "return"
          /\ UNCHANGED exitStatus
       \/ /\ \E sig \in {SIGSEGV, SIGABRT} : Ends("killed", KilledBy(sig))
          /\ out' \in {out, out \o Counts \o <<Cout("failed_tests", "Failed tests:")>>}
    /\ UNCHANGED <<testvec, i, maxLen, failvec, scope, ip, exc, hist, oob>>
    /\ UNCHANGED <<captVars, sigVars, envVars, ioVars>>

\* printResults with nothing to report: its first statement reads
\* __failvec[0] of the empty vector, which is undefined behaviour.  Either
\* the read goes unnoticed and the summary is printed, or the process
\* crashes.
printResultsEmpty ==
    /\ pc = "results"
    /\ failvec = << >>
    /\ oob' = TRUE
    /\ \/ /\ out' = out \o Counts \o <<Cout("no_failed", "No failed tests")>>
          /\ pc' = "return"
          /\ UNCHANGED exitStatus
       \/ /\ Ends("killed", KilledBy(SIGSEGV))
          /\ UNCHANGED out
    /\ UNCHANGED <<testvec, i, maxLen, failvec, scope, ip, exc, hist>>
    /\ UNCHANGED <<captVars, sigVars, envVars, ioVars>>

\* return __failvec.size(); the value becomes the exit status of the process.
executetests_return ==
    /\ pc = "return"
    /\ Ends("done", Len(failvec) % 256)
    /\ UNCHANGED <<testvec, i, maxLen, failvec, scope, ip, exc, out, hist, oob>>
    /\ UNCHANGED <<captVars, sigVars, envVars, ioVars>>

Next ==
    \/ \E f \in Funcs : registertest(f)
    \/ executetests
    \/ Progress
    \/ LoopExit
    \/ RunnerIOCapturer
    \/ RunnerSignalHandler
    \/ HANDLE_SIGNALS
    \/ ASSERT
    \/ EXPECT
    \/ Throw
    \/ BodyIOCapturer
    \/ BodySignalHandler
    \/ BodyReturn
    \/ RaiseBlockedFault
    \/ \E sig \in signals : RaiseArmed(sig)
    \/ \E sig \in signals : RaiseUnarmed(sig)
    \/ IOCapturer_dtor
    \/ SignalHandler_dtor
    \/ Passed
    \/ Catch
    \/ printResults
    \/ printResultsEmpty
    \/ executetests_return

Spec == Init /\ [][Next]_vars

(***************************************************************************)
(* Bytes, C strings and std::string.  A string is the sequence of its      *)
(* bytes; a C string ends before its first NUL byte.                       *)
(***************************************************************************)
\* Longest line handed to sendToStdin.
MaxLine == 2
\* Longest text handed to getLastLine.
MaxText == 4
\* Largest number of calls made in one capture session.
MaxOps == 3

\* The byte '\0'.
NUL == "NUL"

\* The bytes a test body writes, and the bytes of the texts explored.
Bytes == {"a", "\n", NUL}
TextBytes == {"a", "b", "\n", NUL}

\* The sequences over S of length at most n.
SeqsUpTo(S, n) == UNION {[1 .. k -> S] : k \in 0 .. n}

\* The lines a test body sends: C strings.
Lines == SeqsUpTo({"a", "\n"}, MaxLine)
\* The texts getLastLine is applied to: std::strings.
Texts == SeqsUpTo(TextBytes, MaxText)

\* std::strlen of a buffer: the number of bytes before the first NUL.
strlen(b) ==
    IF \E k \in 1 .. Len(b) : b[k] = NUL
    THEN (CHOOSE k \in 1 .. Len(b) : b[k] = NUL /\ \A j \in 1 .. (k - 1) : b[j] # NUL) - 1
    ELSE Len(b)

\* The std::string built from, or extended by, a const char*.
CStr(b) == SubSeq(b, 1, strlen(b))

(***************************************************************************)
(* IOCapturer::getLastLine                                                 *)
(***************************************************************************)
\* std::string::npos, with positions counted from 1.
npos == 0

\* std::string::find_first_of(c)
find_first_of(input, c) ==
    IF \E k \in 1 .. Len(input) : input[k] = c
    THEN CHOOSE k \in 1 .. Len(input) : input[k] = c /\ \A j \in 1 .. (k - 1) : input[j] # c
    ELSE npos

\* std::string::find_last_of(c)
find_last_of(input, c) ==
    IF \E k \in 1 .. Len(input) : input[k] = c
    THEN CHOOSE k \in 1 .. Len(input) :
             input[k] = c /\ \A j \in (k + 1) .. Len(input) : input[j] # c
    ELSE npos

\* A getLastLine that searches for the first newline.
LastNewline_first(input) == find_first_of(input, "\n")

\* The position getLastLine searches for.
LastNewline(input) == find_last_of(input, "\n")

\* A getLastLine that removes one trailing newline and returns what is left.
getLastLine_norecurse(input) ==
    LET pos == LastNewline(input)
    IN  IF pos = npos THEN input
        ELSE IF pos = Len(input) THEN SubSeq(input, 1, Len(input) - 1)
        ELSE CStr(SubSeq(input, pos + 1, Len(input)))

\* IOCapturer::getLastLine.  The last return builds the result from a
\* const char*, so it ends before a NUL byte.
RECURSIVE getLastLine(_)
getLastLine(input) ==
    LET pos == LastNewline(input)
    IN  IF pos = npos THEN input
        ELSE IF pos = Len(input) THEN getLastLine(SubSeq(input, 1, Len(input) - 1))
        ELSE CStr(SubSeq(input, pos + 1, Len(input)))

\* The state before getLastLine is applied to a text.
InitLastLine ==
    /\ pc = "text"
    /\ testvec = << >>
    /\ i = 0
    /\ maxLen = 0
    /\ failvec = << >>
    /\ scope = << >>
    /\ ip = 0
    /\ exc = NoExc
    /\ out = << >>
    /\ exitStatus = 0
    /\ IOCapturer_instanceCount = 0
    /\ fdtab = <<Orig(STDIN_FILENO), Orig(STDOUT_FILENO), Orig(STDERR_FILENO)>>
    /\ fdLimit = Ample
    /\ instanceCount = 0
    /\ s_jmpbuf = [frame |-> "unset", ip |-> 0]
    /\ s_signo = 0
    /\ s_exit = FALSE
    /\ sigaction = [s \in signals |-> "SIG_DFL"]
    /\ blocked = {}
    /\ hist = << >>
    /\ oob = FALSE
    /\ NoSession
    /\ \E text \in Texts : last = Call("none", text, << >>, NoExc, << >>)

\* IOCapturer::getLastLine(text) is called.
CallGetLastLine ==
    /\ pc = "text"
    /\ last' = Call("getLastLine", last.arg, getLastLine(last.arg), NoExc, << >>)
    /\ pc' = "line"
    /\ UNCHANGED <<scope, ip, exc, hist, oob, pipebuf, screen, fed, sinceDrain, ops>>
    /\ UNCHANGED <<runnerVars, captVars, sigVars, envVars>>

NextLastLine == CallGetLastLine

SpecLastLine == InitLastLine /\ [][NextLastLine]_vars

(***************************************************************************)
(* One capture session, as a test body uses it: the body writes to stdout  *)
(* and stderr, reads stdin, and calls sendToStdin, printToScreen and       *)
(* getStdout.  A pipe holds PipeCapacity bytes; the capacity of a real     *)
(* pipe exceeds the lines explored in the same way.                        *)
(***************************************************************************)
\* char buf[1024] of getStdout.
sizeof_buf == 1024

\* The number of bytes a pipe buffers: room for two lines of full length.
PipeCapacity == 2 * (MaxLine + 1)

\* The open file descriptor fd refers to.
FileOf(tab, fd) ==
    IF fd >= 0 /\ fd < Len(tab) THEN tab[fd + 1] ELSE [obj |-> "none", id |-> -1]

\* write(fd, bytes, Len(bytes)): the count it returns (-1 for an error: a bad
\* descriptor, or a pipe without room for the bytes), the pipe buffers and
\* the screen it leaves.
write(tab, bufs, scr, fd, bytes) ==
    LET f == FileOf(tab, fd)
    IN  IF f.obj = "pipe_w"
        THEN IF Len(bufs[f.id]) + Len(bytes) <= PipeCapacity
             THEN [n |-> Len(bytes), bufs |-> [bufs EXCEPT ![f.id] = @ \o bytes], screen |-> scr]
             ELSE [n |-> -1, bufs |-> bufs, screen |-> scr]
        ELSE IF f \in {Orig(STDOUT_FILENO), Orig(STDERR_FILENO)}
        THEN [n |-> Len(bytes), bufs |-> bufs, screen |-> scr \o bytes]
        ELSE [n |-> -1, bufs |-> bufs, screen |-> scr]

\* The state of a process that has registered no test and has descriptors to
\* spare: a body is about to be given a capture session.
InitIO ==
    /\ pc = "session"
    /\ testvec = << >>
    /\ i = 0
    /\ maxLen = 0
    /\ failvec = << >>
    /\ scope = << >>
    /\ ip = 0
    /\ exc = NoExc
    /\ out = << >>
    /\ exitStatus = 0
    /\ IOCapturer_instanceCount = 0
    /\ fdtab = <<Orig(STDIN_FILENO), Orig(STDOUT_FILENO), Orig(STDERR_FILENO)>>
    /\ fdLimit = Ample
    /\ instanceCount = 0
    /\ s_jmpbuf = [frame |-> "unset", ip |-> 0]
    /\ s_signo = 0
    /\ s_exit = FALSE
    /\ sigaction = [s \in signals |-> "SIG_DFL"]
    /\ blocked = {}
    /\ hist = << >>
    /\ oob = FALSE
    /\ NoSession
    /\ last = Call("none", << >>, << >>, NoExc, << >>)

\* The capturer of the session, and the position of a call in it.
Capt == scope[1].impl
InSession == pc = "io" /\ ops < MaxOps

\* What a call leaves when it throws e: the exception leaves the body.
CallThrows(e) ==
    /\ exc' = e
    /\ pc' = "thrown"

\* IOCapturer __iocapt; the two pipes start empty.
SessionIOCapturer ==
    /\ pc = "session"
    /\ LET r == IOCapturer_IOCapturer
       IN  /\ IOCapturer_instanceCount' = r.count
           /\ fdtab' = r.tab
           /\ IF r.exc = NoExc
              THEN /\ scope' = <<Obj("IOCapturer", r.impl)>>
                   /\ pipebuf' = [n \in {r.impl.stdoutPipe[1], r.impl.stdinPipe[1]} |-> << >>]
                   /\ pc' = "io"
                   /\ UNCHANGED exc
              ELSE /\ CallThrows(r.exc)
                   /\ UNCHANGED <<scope, pipebuf>>
    /\ UNCHANGED <<ip, hist, oob, screen, last, fed, sinceDrain, ops>>
    /\ UNCHANGED <<runnerVars, sigVars, envVars>>

\* The body writes one byte to stdout or to stderr (both are unbuffered).
\* The write blocks while the pipe has no room.
BodyWrite(fd, byte) ==
    /\ InSession
    /\ LET w == write(fdtab, pipebuf, screen, fd, <<byte>>)
       IN  /\ w.n = 1
           /\ pipebuf' = w.bufs
           /\ screen' = w.screen
    /\ sinceDrain' = sinceDrain \o <<byte>>
    /\ last' = Call("write", <<byte>>, << >>, NoExc, << >>)
    /\ ops' = ops + 1
    /\ UNCHANGED <<pc, scope, ip, exc, hist, oob, fed>>
    /\ UNCHANGED <<runnerVars, captVars, sigVars, envVars>>

\* The body reads stdin: the read blocks while the pipe is empty and then
\* returns the bytes queued.
BodyRead ==
    /\ InSession
    /\ LET f == FileOf(fdtab, STDIN_FILENO)
       IN  /\ f.obj = "pipe_r"
           /\ pipebuf[f.id] # << >>
           /\ last' = Call("read", fed, pipebuf[f.id], NoExc, << >>)
           /\ pipebuf' = [pipebuf EXCEPT ![f.id] = << >>]
    /\ fed' = NoLine
    /\ ops' = ops + 1
    /\ UNCHANGED <<pc, scope, ip, exc, hist, oob, screen, sinceDrain>>
    /\ UNCHANGED <<runnerVars, captVars, sigVars, envVars>>

\* The values line[std::strlen(line) - 1] can have: the last byte of the
\* line, or, for the empty line, whatever byte lies outside the array.
LastByteOf(line) == IF line # << >> THEN {line[Len(line)]} ELSE Bytes

\* write_ptr of sendToStdin, c being the value of line[std::strlen(line) - 1].
write_ptr(line, c) == IF c # "\n" THEN line \o <<"\n">> ELSE line

\* IOCapturer::sendToStdin(line)
sendToStdin(line, c) ==
    /\ InSession
    /\ oob' = (oob \/ line = << >>)
    /\ LET ptr == write_ptr(line, c)
           pre == pipebuf[Capt.stdinPipe[1]]
           w == write(fdtab, pipebuf, screen, Capt.stdinPipe[2], ptr)
       IN  /\ pipebuf' = w.bufs
           /\ IF w.n # Len(ptr)
              THEN /\ CallThrows(runtime_error("Failed to write to stdin (Resource temporarily unavailable)"))
                   /\ last' = Call("sendToStdin", line, << >>, exc', pre)
                   /\ fed' = NoLine
              ELSE /\ last' = Call("sendToStdin", line, << >>, NoExc, pre)
                   /\ fed' = IF pre = << >> THEN [has |-> TRUE, line |-> line] ELSE NoLine
                   /\ UNCHANGED <<pc, exc>>
    /\ ops' = ops + 1
    /\ UNCHANGED <<scope, ip, hist, screen, sinceDrain>>
    /\ UNCHANGED <<runnerVars, captVars, sigVars, envVars>>

\* IOCapturer::printToScreen(format) with a format that holds no conversion.
printToScreen(format) ==
    /\ InSession
    /\ LET len == strlen(format)
           w == write(fdtab, pipebuf, screen, Capt.stdoutOld, SubSeq(format, 1, len))
       IN  /\ pipebuf' = w.bufs
           /\ screen' = w.screen
           /\ IF w.n # len
              THEN /\ CallThrows(runtime_error("write() error"))
                   /\ last' = Call("printToScreen", format, << >>, exc', << >>)
              ELSE /\ last' = Call("printToScreen", format, << >>, NoExc, << >>)
                   /\ UNCHANGED <<pc, exc>>
    /\ ops' = ops + 1
    /\ UNCHANGED <<scope, ip, hist, oob, fed, sinceDrain>>
    /\ UNCHANGED <<runnerVars, captVars, sigVars, envVars>>

\* What s += buf appends after buf[ss] = '\0': the bytes of buf up to its
\* first NUL byte.
Chunk(buf, ss) == CStr(SubSeq(buf, 1, ss) \o <<NUL>>)

\* The read loop of getStdout: s after the non-blocking reads have emptied
\* the pipe that holds the bytes buffered.
RECURSIVE getStdoutLoop(_, _)
getStdoutLoop(buffered, s) ==
    IF buffered = << >> THEN s
    ELSE LET ss == IF Len(buffered) < sizeof_buf - 1 THEN Len(buffered) ELSE sizeof_buf - 1
         IN  getStdoutLoop(SubSeq(buffered, ss + 1, Len(buffered)),
                           s \o Chunk(buffered, ss))

\* IOCapturer::getStdout()
getStdout ==
    /\ InSession
    /\ LET f == FileOf(fdtab, Capt.stdoutPipe[1])
       IN  /\ last' = Call("getStdout", << >>, getStdoutLoop(pipebuf[f.id], << >>),
                           NoExc, sinceDrain)
           /\ pipebuf' = [pipebuf EXCEPT ![f.id] = << >>]
    /\ sinceDrain' = << >>
    /\ ops' = ops + 1
    /\ UNCHANGED <<pc, scope, ip, exc, hist, oob, screen, fed>>
    /\ UNCHANGED <<runnerVars, captVars, sigVars, envVars>>

NextIO ==
    \/ SessionIOCapturer
    \/ \E fd \in {STDOUT_FILENO, STDERR_FILENO} : \E byte \in Bytes : BodyWrite(fd, byte)
    \/ BodyRead
    \/ \E line \in Lines : \E c \in LastByteOf(line) : sendToStdin(line, c)
    \/ printToScreen(<<"b">>)
    \/ getStdout

SpecIO == InitIO /\ [][NextIO]_vars

(***************************************************************************)
(* Properties                                                              *)
(***************************************************************************)
\* The three standard descriptors refer to the files of process start.
StreamsOriginal ==
    \A fd \in {STDIN_FILENO, STDOUT_FILENO, STDERR_FILENO} : fdtab[fd + 1] = Orig(fd)

\* The three standard descriptors are wired to the pipes of impl.
WiredTo(impl) ==
    /\ fdtab[STDOUT_FILENO + 1] = PipeW(impl.stdoutPipe[1])
    /\ fdtab[STDERR_FILENO + 1] = PipeW(impl.stdoutPipe[1])
    /\ fdtab[STDIN_FILENO + 1] = PipeR(impl.stdinPipe[1])

\* C1: in every reachable state at most one capture session is live, and
\* while one is live the standard streams are wired to its channels and to
\* no other's.
C1_AtMostOneSession ==
    /\ Cardinality(LiveSessions) <= 1
    /\ \A k \in LiveSessions : WiredTo(scope[k].impl)

\* C1: a session is live after a test body tried to begin a second one.
C1_Witness ==
    /\ pc = "unwind"
    /\ Cardinality(LiveSessions) = 1
    /\ hist[Case].nested = 1
    /\ exc.type = "std::logic_error"

\* A step in which the test body constructs an IOCapturer.
BodyBeginStep == AtOp("IOCapturer") /\ hist'[Case].nested = hist[Case].nested + 1

\* A step that destroys the session of the runner in a case whose body
\* tried to begin a second session.
EndAfterNestedStep ==
    /\ pc = "unwind"
    /\ Len(scope) = 1
    /\ Top.kind = "IOCapturer"
    /\ hist[Case].nested > 0
    /\ scope' = << >>

\* The descriptor impl saved for a standard descriptor.
Saved(impl, fd) ==
    CASE fd = STDOUT_FILENO -> impl.stdoutOld
      [] fd = STDERR_FILENO -> impl.stderrOld
      [] fd = STDIN_FILENO  -> impl.stdinOld

Finished == {k \in 1 .. Len(hist) : hist[k].result # ""}
FailedCases == {k \in Finished : hist[k].result # "passed"}

\* The pieces of the given kind written so far, in order.
Written(kind) == SelectSeq(out, LAMBDA p : p.kind = kind)

\* The runner is between two cases, or has left the loop.
BetweenCases == pc \in {"loop", "results", "return", "done"}

\* The process has ended after the last case was run.
EndedAfterRun == pc \in {"done", "killed"} /\ scope = << >> /\ i = Len(testvec)

\* C3: when the next case begins or the summary is rendered, the session of
\* a case whose entry point was called has been ended exactly once, the
\* three standard streams refer to their original files and no session is
\* live.
C3_SessionEndedOnEveryExitPath ==
    (BetweenCases /\ i >= 1 /\ hist[i].invoked = 1) =>
        /\ hist[i].begun = 1
        /\ hist[i].ended = 1
        /\ LiveSessions = {}
        /\ StreamsOriginal

\* C4: when the loop of runTests is left, every registered entry point has
\* been called exactly once and there is one progress line per registered
\* case, in registration order.
C4_EveryCaseRunOnce ==
    pc = "results" =>
        /\ \A k \in 1 .. Len(testvec) : hist[k].invoked = 1
        /\ Len(Written("progress")) = Len(testvec)
        /\ \A k \in 1 .. Len(testvec) :
               /\ Written("progress")[k].num = k
               /\ Written("progress")[k].name = hist[k].name

\* C5: when the loop of runTests is left, every case registered after a
\* failed case has been executed and has its own outcome, and exactly the
\* failed cases had a failure reason recorded.
C5_FailureNeverStopsRun ==
    pc = "results" =>
        /\ \A j \in FailedCases : \A k \in (j + 1) .. Len(testvec) :
               hist[k].invoked = 1 /\ k \in Finished
        /\ \A k \in 1 .. Len(testvec) : hist[k].reason # "" <=> k \in FailedCases

\* C6: the exit status of a process that ran all its cases is the number of
\* failed cases.
C6_ExitStatusIsFailureCount ==
    EndedAfterRun =>
        /\ exitStatus = Cardinality(FailedCases)
        /\ (exitStatus = 0 <=> FailedCases = {})

\* C7: when no case failed, printResults reads no element of the empty
\* failure vector, the process is not killed, the summary says
\* "No failed tests" and lists no failure, and the exit status is 0.
C7_NoFailuresCompletes ==
    (i = Len(testvec) /\ scope = << >> /\ failvec = << >>
        /\ pc \in {"return", "done", "killed"}) =>
        /\ ~oob
        /\ pc # "killed"
        /\ Len(Written("no_failed")) = 1
        /\ Written("failure") = << >>
        /\ (pc = "done" => exitStatus = 0)

\* The ordinals of the failed cases, in execution order.
FailedOrdinals ==
    SelectSeq([k \in 1 .. Len(testvec) |-> k], LAMBDA k : k \in FailedCases)

\* C8: after a run in which some case failed, the summary reports
\* registered - failed as passed and the number of failed cases as failed,
\* and the failure list holds one line per failed case, in execution order,
\* with the ordinal, the name and the recorded reason of that case (the text
\* of the condition for a failed assertion).
C8_SummaryListsFailures ==
    (pc \in {"return", "done"} /\ FailedCases # {}) =>
        /\ Len(Written("count")) = 2
        /\ Written("count")[1].num = Len(testvec) - Cardinality(FailedCases)
        /\ Written("count")[1].text = " Passed"
        /\ Written("count")[2].num = Cardinality(FailedCases)
        /\ Written("count")[2].text = " Failed"
        /\ Len(Written("failure")) = Len(FailedOrdinals)
        /\ \A n \in 1 .. Len(FailedOrdinals) :
               LET k == FailedOrdinals[n]
                   line == Written("failure")[n]
               IN  /\ line.num = k
                   /\ line.name = hist[k].name
                   /\ line.text = hist[k].reason
                   /\ hist[k].result = "FailedAssertion" => line.text = hist[k].what

\* C9: a case that armed a recovery point and then raised SIGSEGV does not
\* end the process, and once its try block has ended it is recorded as
\* failed with a reason that begins "Signal thrown: ".
C9_SegvAfterArmFailsCase ==
    \A k \in 1 .. Len(hist) :
        (hist[k].sig = SIGSEGV /\ hist[k].armed) =>
            /\ hist[k].how = "armed"
            /\ ~(k = Case /\ pc \in {"killed", "exited"})
            /\ k \in Finished =>
                   /\ hist[k].reason = "Signal thrown: " \o signalToString(SIGSEGV)
                   /\ \E n \in 1 .. Len(failvec) : failvec[n].first = k - 1

\* The process ended in ActivateSignalHandler, on a signal that asks for exit.
ExitedOnFatal ==
    /\ pc = "exited"
    /\ hist[Case].how = "armed"

\* C10: a SIGINT, SIGABRT or SIGTERM delivered to a case that armed a
\* recovery point ends the process with status 1; the case has no outcome,
\* no later case is started, no summary is written, and the process never
\* runs again.
C10_FatalSignalTerminates ==
    /\ [](\A k \in 1 .. Len(hist) :
            (k = Case /\ pc \notin {"register", "loop", "iocapt", "sighand", "body"}
                /\ hist[k].how = "armed" /\ hist[k].sig \in {SIGINT, SIGABRT, SIGTERM}) =>
                /\ pc = "exited"
                /\ exitStatus = 1
                /\ k \notin Finished
                /\ testvec[k].failReason = nullopt
                /\ hist[k].reason = ""
                /\ \A n \in 1 .. Len(failvec) : failvec[n].first # k - 1
                /\ Len(Written("outcome")) = k - 1
                /\ Len(Written("progress")) = k
                /\ Written("results") = << >>
                /\ \A later \in (k + 1) .. Len(hist) :
                       hist[later] = [NoHist EXCEPT !.name = hist[later].name])
    /\ [][pc = "exited" => pc' = "exited"]_vars

\* C10: SIGTERM ended the process in the third case, after two failures.
C10_Witness ==
    /\ ExitedOnFatal
    /\ hist[Case].sig = SIGTERM
    /\ Case = 3
    /\ Len(failvec) = 2
    /\ exitStatus = 1

\* C11: the progress line of every executed case ends with "Passed" when the
\* entry point returned normally and with "Failed: " followed by the recorded
\* reason when the case failed, whatever the kind of failure.
C11_OutcomeText ==
    \A k \in Finished :
        /\ k <= Len(Written("outcome"))
        /\ Written("outcome")[k].text =
               IF hist[k].result = "passed" THEN "Passed"
               ELSE "Failed: " \o hist[k].reason

\* The messages of the two occupancy failures.
ReentrancyMessages ==
    {"Only one instance of IOCapturer can be active at a time",
     "Cannot have more than one instance of signal handler at a time in one thread."}

\* C12: a case that ended on the occupancy failure of an IOCapturer or of a
\* SignalHandler is recorded as failed with the reason "Internal error: "
\* followed by the message of the failure.
C12_ReentrancyIsInternalError ==
    \A k \in Finished :
        hist[k].what \in ReentrancyMessages =>
            /\ hist[k].reason = "Internal error: " \o hist[k].what
            /\ \E n \in 1 .. Len(failvec) : failvec[n].first = k - 1

\* The line with a newline appended unless it ends with one.
WithNewline(line) ==
    IF line # << >> /\ line[Len(line)] = "\n" THEN line ELSE line \o <<"\n">>

\* C13: a sendToStdin(line) that finds the stdin pipe empty succeeds and
\* queues the line, followed by a newline unless it ends with one, and the
\* read of stdin that follows returns exactly those bytes; this holds for
\* every line, the empty line included.
C13_FeedThenRead ==
    /\ (last.op = "sendToStdin" /\ last.pre = << >>) =>
           /\ last.exc = NoExc
           /\ pipebuf[Capt.stdinPipe[1]] = WithNewline(last.arg)
    /\ (last.op = "read" /\ last.arg.has) => last.ret = WithNewline(last.arg.line)

\* C14: a sendToStdin that finds a line queued in the stdin pipe throws the
\* std::runtime_error of the failed write.  Stated for the runs that sent no
\* empty line, which sendToStdin reads outside of.
C14_SecondFeedFails ==
    (last.op = "sendToStdin" /\ last.pre # << >> /\ ~oob) =>
        last.exc.type = "std::runtime_error"

\* C15: getStdout returns exactly the bytes the body wrote to stdout and
\* stderr since the previous getStdout (or since the session began), in the
\* order written and without the bytes of printToScreen; it returns the empty
\* string when nothing was written.
C15_DrainReturnsWrittenBytes ==
    last.op = "getStdout" => last.ret = last.pre

\* Whether a text holds a newline, and the text without its trailing newlines.
HasNewline(t) == \E k \in 1 .. Len(t) : t[k] = "\n"

RECURSIVE WithoutTrailingNewlines(_)
WithoutTrailingNewlines(t) ==
    IF t # << >> /\ t[Len(t)] = "\n"
    THEN WithoutTrailingNewlines(SubSeq(t, 1, Len(t) - 1))
    ELSE t

\* The bytes of t that follow its last newline (all of t when it has none).
AfterLastNewline(t) ==
    LET after == {k \in 0 .. Len(t) : \A j \in (k + 1) .. Len(t) : t[j] # "\n"}
        from == CHOOSE k \in after : \A j \in after : k <= j
    IN  SubSeq(t, from + 1, Len(t))

\* C16: getLastLine(text) is text when text holds no newline, and otherwise
\* what follows the last newline of text without its trailing newlines; the
\* result holds no newline, a text of newlines only gives the empty string,
\* and "a\nb\n" and "a\nb" give "b" and "onlyline" gives "onlyline".
C16_LastLineOfEveryText ==
    /\ last.op = "getLastLine" =>
           /\ last.ret = IF HasNewline(last.arg)
                         THEN AfterLastNewline(WithoutTrailingNewlines(last.arg))
                         ELSE last.arg
           /\ ~HasNewline(last.ret)
           /\ (\A k \in 1 .. Len(last.arg) : last.arg[k] = "\n") => last.ret = << >>
    /\ getLastLine(<<"a", "\n", "b", "\n">>) = <<"b">>
    /\ getLastLine(<<"a", "\n", "b">>) = <<"b">>
    /\ getLastLine(<<"o", "n", "l", "y", "l", "i", "n", "e">>)
           = <<"o", "n", "l", "y", "l", "i", "n", "e">>

\* C17 as stated: getLastLine("a\n\n") is the empty string.
C17_TwoNewlinesGiveEmpty ==
    (last.op = "getLastLine" /\ last.arg = <<"a", "\n", "\n">>) => last.ret = << >>

\* C17, amended: getLastLine("a\n\n") is "a".
C17_TwoNewlinesGiveA ==
    (last.op = "getLastLine" /\ last.arg = <<"a", "\n", "\n">>) => last.ret = <<"a">>

\* C17: getLastLine was applied to "a\n\n".
C17_Witness ==
    /\ pc = "line"
    /\ last.op = "getLastLine"
    /\ last.arg = <<"a", "\n", "\n">>

\* C18: getLastLine applied to a result of getLastLine returns that result.
C18_LastLineIdempotent ==
    last.op = "getLastLine" => getLastLine(last.ret) = last.ret

\* C18: getLastLine was applied to a text that holds two lines and no
\* trailing newline, and returned the second.
C18_Witness ==
    /\ pc = "line"
    /\ last.arg = <<"a", "\n", "b", "a">>
    /\ last.ret = <<"b", "a">>
    /\ last.ret # last.arg

\* A step in which handler(sig) runs.
Delivered(sig) ==
    /\ pc = "body"
    /\ hist'[Case].sig = sig
    /\ hist'[Case].how \in {"armed", "unarmed"}

\* C19 as stated: the delivery of each of the four trapped signals sets
\* s_exit, and sets s_signo to the number of the signal.
C19_AllFourRequestExit ==
    [][\A sig \in signals : Delivered(sig) => (s_exit' /\ s_signo' = sig)]_vars

\* C19, amended: the delivery of SIGINT, SIGABRT or SIGTERM sets s_exit, the
\* delivery of SIGSEGV does not, and each of the four sets s_signo to the
\* number of the signal.
C19_ThreeRequestExit ==
    [][\A sig \in signals :
          Delivered(sig) =>
              /\ s_signo' = sig
              /\ s_exit' <=> sig \in {SIGINT, SIGABRT, SIGTERM}]_vars

\* C19: SIGSEGV was delivered to a case that had armed a recovery point, the
\* exception is on its way to the runner and s_exit is not set.
C19_Witness ==
    /\ pc = "unwind"
    /\ exc.type = "SignalException"
    /\ hist[Case].sig = SIGSEGV
    /\ s_signo = SIGSEGV
    /\ ~s_exit

\* C20: a signal raised in a case that has executed no HANDLE_SIGNALS() ends
\* the process in that case: control reaches no setjmp of a test body, the
\* case gets no outcome and no failure is recorded for it.  A signal that is
\* delivered to a case that has executed HANDLE_SIGNALS() returns to the
\* setjmp of the one executed last.
C20_UnarmedSignalTerminates ==
    \A k \in 1 .. Len(hist) :
        /\ (hist[k].sig # 0 /\ hist[k].lastArm = 0) =>
               /\ k = Case
               /\ pc \in {"exited", "killed"}
               /\ hist[k].landed = 0
               /\ k \notin Finished
               /\ testvec[k].failReason = nullopt
               /\ hist[k].reason = ""
               /\ \A n \in 1 .. Len(failvec) : failvec[n].first # k - 1
        /\ hist[k].how = "armed" =>
               /\ hist[k].lastArm > 0
               /\ hist[k].landed = hist[k].lastArm

\* C20: the first case armed twice and its SIGSEGV returned to the second
\* setjmp; the second case armed nothing and a signal delivered to it ended
\* the process.
C20_Witness ==
    /\ Len(hist) >= 2
    /\ Case = 2
    /\ pc \in {"exited", "killed"}
    /\ hist[1].how = "armed"
    /\ hist[1].landed = 2
    /\ hist[1].result = "SignalException"
    /\ hist[2].how = "unarmed"
    /\ hist[2].lastArm = 0

\* A step in which the runner constructs the IOCapturer of a case while no
\* session is counted and fewer than the seven descriptors of a session (two
\* pipes, three duplicates) are free: a pipe() or a dup() of it fails.
BeginShortOfDescriptors ==
    /\ pc = "iocapt"
    /\ ~CapturerOccupied
    /\ ~CanOpen(fdtab, 7)

\* C21: a constructor of IOCapturer in which a pipe() or a dup() fails throws
\* a std::runtime_error, and leaves the three standard descriptors referring
\* to the files they referred to before it.
C21_FailedBeginThrowsAndKeepsStreams ==
    [][BeginShortOfDescriptors =>
          /\ exc'.type = "std::runtime_error"
          /\ \A fd \in {STDIN_FILENO, STDOUT_FILENO, STDERR_FILENO} :
                 fdtab'[fd + 1] = fdtab[fd + 1]]_vars

\* The recovery contexts that are live: constructed and not yet destroyed.
LiveHandlers == {k \in 1 .. Len(scope) : scope[k].kind = "SignalHandler"}

\* C22: while a test function runs, the live objects are exactly the
\* IOCapturer and the SignalHandler the runner constructed for the case, in
\* that order; between two cases and after the loop no IOCapturer and no
\* SignalHandler is live and each of the four trapped signals has the
\* disposition SIG_DFL.
C22_OneSessionOneHandlerPerCase ==
    /\ pc = "body" =>
           /\ Cardinality(LiveSessions) = 1
           /\ Cardinality(LiveHandlers) = 1
           /\ scope[1].kind = "IOCapturer"
           /\ scope[2].kind = "SignalHandler"
           /\ hist[Case].begun = 1
           /\ hist[Case].invoked = 1
    /\ BetweenCases =>
           /\ LiveSessions = {}
           /\ LiveHandlers = {}
           /\ instanceCount = 0
           /\ \A s \in signals : sigaction[s] = "SIG_DFL"

\* C22: the first case was left by the exception of a signal, the second
\* returned, and the runner is between the second case and the third.
C22_Witness ==
    /\ pc = "loop"
    /\ i = 2
    /\ hist[1].result = "SignalException"
    /\ hist[2].result = "passed"
    /\ hist[2].invoked = 1
    /\ scope = << >>
    /\ \A s \in signals : sigaction[s] = "SIG_DFL"

\* The case the k-th failure line is about.
FailedCaseOf(k) == FailedOrdinals[k]

\* The length of the longest name among the registered cases, and among the
\* failed ones.
LongestRegistered ==
    CHOOSE n \in {Len(hist[k].name) : k \in 1 .. Len(hist)} :
        \A k \in 1 .. Len(hist) : Len(hist[k].name) <= n
LongestFailed ==
    CHOOSE n \in {Len(hist[k].name) : k \in FailedCases} :
        \A k \in FailedCases : Len(hist[k].name) <= n

\* C23: the progress line of a case has (length of the longest registered
\* name) - (length of its name) + 3 dots, a line of the failure list has
\* (length of the longest name of a failed case) - (length of the name of its
\* case) + 3 dots, and each count is at least 3.
C23_PaddingDots ==
    /\ \A n \in 1 .. Len(Written("progress")) :
           /\ Written("progress")[n].dots = LongestRegistered - Len(hist[n].name) + 3
           /\ Written("progress")[n].dots >= 3
    /\ \A n \in 1 .. Len(Written("failure")) :
           /\ Written("failure")[n].dots
                  = LongestFailed - Len(hist[FailedCaseOf(n)].name) + 3
           /\ Written("failure")[n].dots >= 3

\* C24: once the runner has started, no step changes the number or the order
\* of the registered UnitTests, or the function or the name of any of them.
C24_RegistryUnchanged ==
    [][pc # "register" =>
          /\ Len(testvec') = Len(testvec)
          /\ \A k \in 1 .. Len(testvec) :
                 /\ testvec'[k].func = testvec[k].func
                 /\ testvec'[k].name = testvec[k].name]_vars

\* C25: IOCapturer::instanceCount is the number of live IOCapturers.
C25_CounterIsLiveSessions ==
    IOCapturer_instanceCount = Cardinality(LiveSessions)

\* The number of open descriptors of the process (no descriptor is ever
\* closed, so the table has no gap).
OpenDescriptors == Len(fdtab)

\* C26: after any number of cases whose IOCapturer was constructed and
\* destroyed, the process has the three descriptors open that it started
\* with: each session released the four pipe ends and the three duplicates
\* it opened.
C26_SessionReleasesDescriptors ==
    (BetweenCases /\ \A k \in 1 .. i : hist[k].begun = 1 /\ hist[k].ended = 1) =>
        OpenDescriptors = 3

\* C27: while the body of a case runs and no signal has been delivered in
\* that case, SignalHandler::lastSignal() is 0 and shouldExit() is false,
\* whatever was delivered in earlier cases; and lastSignal() is non-zero in a
\* case only after a signal was delivered in it.
C27_SignalStateStartsClear ==
    (pc = "body" /\ hist[Case].sig = 0) => (s_signo = 0 /\ ~s_exit)

\* The kinds of the pieces of the report of the runner.
ReportKinds == {"progress", "outcome", "endl", "results", "count",
                "failed_tests", "failure", "no_failed"}

\* C28: every piece of the report (progress lines, outcome texts, summary)
\* is written while no IOCapturer is live, and to the file standard output
\* referred to when the process started, not into a pipe.
C28_ReportNotCaptured ==
    \A n \in 1 .. Len(out) :
        out[n].kind \in ReportKinds =>
            /\ ~out[n].live
            /\ out[n].dest = Orig(STDOUT_FILENO)

\* C29: the diagnostic written before exit(1), "Terminating program (...)"
\* of ActivateSignalHandler and the message of the SignalHandler constructor
\* about the missing location, goes to the file standard error referred to
\* when the process started, not into a pipe of the live IOCapturer.
C29_DiagnosticReachesConsole ==
    \A n \in 1 .. Len(out) :
        out[n].kind \in {"terminating", "unarmed"} =>
            out[n].dest = Orig(STDERR_FILENO)

====
